---------------------------- MODULE Spec2Model ----------------------------
(***************************************************************************)
(* A model of the Trading repository:                                      *)
(*   data_fetcher/fetch_daily_data.py     incremental per-symbol sync      *)
(*   strategy_executor/strategy_signal.py moving-average crossover signal  *)
(*   strategy_backtest/backtest.py        first-touch trade simulation     *)
(*                                                                         *)
(* Representation.  A calendar date is its day number counted from the     *)
(* day before Epoch (day 1 = 2024-02-28, so the range straddles the leap   *)
(* day and a month end).  The text "YYYYMMDD" of the command line is the   *)
(* number y*10000 + m*100 + d.  The text "YYYY-MM-DD" of a CSV date cell   *)
(* is the tuple <<y, m, d>>, and a cell that does not parse is <<>>.       *)
(* A CSV file is [exists, rows]; the header line is implied.               *)
(***************************************************************************)
EXTENDS Integers, Sequences, FiniteSets, TLC

VARIABLES
    store,      \* symbol -> the symbol's CSV file under DATA_DIR
    source,     \* the external source: the bars it holds and how it answers
    call,       \* the last event of the store: what the last sync did
    snapshot,   \* symbols_snapshot.json
    changelog,  \* market_symbols_log.md, one entry per section
    run,        \* update_all_symbols: where the current run stands
    ideal,      \* the store as the current run would leave it if no symbol failed
    csv,        \* the one CSV the strategy and the backtest read
    signals,    \* signals.json and the run of strategy_signal.py that wrote it
    report      \* the last run of backtest.py

storeVars == <<store, source, call>>
batchVars == <<snapshot, changelog, run, ideal>>
stratVars == <<csv, signals, report>>
vars == <<store, source, call, snapshot, changelog, run, ideal,
          csv, signals, report>>

---------------------------------------------------------------------------
(* Bounds of the model. *)

\* The bars an arbitrary fetch answer carries are dated among days 1..MaxDay.
MaxDay == 2
\* An arbitrary fetch answer holds at most MaxFetch bars.
MaxFetch == 2
\* update_all_symbols is run with an end date up to day LastDay.
LastDay == 3
\* fetch_symbols returns between 1 and MaxSymbols symbols.
MaxSymbols == 2
\* update_all_symbols runs at most MaxRuns times.
MaxRuns == 2
\* The strategy's CSV grows by at most MaxTail bars.
MaxTail == 2
\* backtest.py is run with --hold-days 0..MaxHold.
MaxHold == 2
\* The CSV handed to evaluate_trade alone holds at most MaxBars bars.
MaxBars == 4

---------------------------------------------------------------------------
(* Constants of strategy_signal.py. *)

\* len(df) < 30
MinHistory == 30
\* rolling(5)
ShortWindow == 5
\* rolling(20)
LongWindow == 20

---------------------------------------------------------------------------
(* Calendar: what datetime.strptime / strftime / timedelta compute. *)

Epoch == [y |-> 2024, doy |-> 58]

Max(a, b) == IF a >= b THEN a ELSE b

NoDate == 0

IsLeap(y) == (y % 4 = 0 /\ y % 100 # 0) \/ y % 400 = 0

DaysInMonth(y, m) ==
    IF m = 2 THEN (IF IsLeap(y) THEN 29 ELSE 28)
    ELSE IF m \in {4, 6, 9, 11} THEN 30 ELSE 31

RECURSIVE DaysBeforeMonth(_, _)
DaysBeforeMonth(y, m) ==
    IF m = 1 THEN 0 ELSE DaysBeforeMonth(y, m - 1) + DaysInMonth(y, m - 1)

\* The day number of the civil date y-m-d.
ToOrdinal(y, m, d) == DaysBeforeMonth(y, m) + d - Epoch.doy

\* The civil date <<y, m, d>> of day number o.
CivilDate(o) ==
    LET y == Epoch.y
        doy == o + Epoch.doy
        m == CHOOSE k \in 1..12 :
                 /\ DaysBeforeMonth(y, k) < doy
                 /\ doy <= DaysBeforeMonth(y, k) + DaysInMonth(y, k)
    IN <<y, m, doy - DaysBeforeMonth(y, m)>>

Calendar ==
    [o \in 1..Max(Max(MaxDay, LastDay) + 2, MinHistory + MaxTail) |-> CivilDate(o)]

FromOrdinal(o) == Calendar[o]

\* parse_date: "%Y%m%d" text to a date.
parse_date(value) ==
    ToOrdinal(value \div 10000, (value \div 100) % 100, value % 100)

\* format_date: a date to "%Y%m%d" text.
format_date(value) ==
    LET c == FromOrdinal(value) IN c[1] * 10000 + c[2] * 100 + c[3]

\* Series.dt.strftime("%Y-%m-%d"): a date to the text of a CSV date cell.
Strftime(o) == FromOrdinal(o)

\* pd.to_datetime(cell, errors="coerce"): NaT (NoDate) for a cell that does
\* not parse.
ToDatetime(cell) ==
    IF cell = <<>> THEN NoDate ELSE ToOrdinal(cell[1], cell[2], cell[3])

---------------------------------------------------------------------------
(* The store: fetch_daily_data.py *)

\* The one symbol the store specifications synchronise.
StoreSymbols == {<<"6", "0">>}

\* The payload of a bar (its 收盘 and the other columns): two values are
\* enough to tell a stored bar from a re-fetched one of the same date.
Payloads == {"a", "b"}

DateCells == {Strftime(o) : o \in 1..MaxDay} \cup {<<>>}

Bars == [date : DateCells, close : Payloads]

NoFile == [exists |-> FALSE, rows |-> <<>>]

File(rows) == [exists |-> TRUE, rows |-> rows]

\* Every frame fetch_daily may return: any bars, in any order.
SeqsUpTo(S, n) == UNION {[1..k -> S] : k \in 0..n}

Frames == SeqsUpTo(Bars, MaxFetch)

\* get_existing_last_date: the date of the file's last line; None (NoDate)
\* when the file is absent, holds no data line, or the cell does not parse.
get_existing_last_date(f) ==
    IF ~f.exists THEN NoDate
    ELSE IF Len(f.rows) = 0 THEN NoDate
    ELSE ToDatetime(f.rows[Len(f.rows)].date)

\* Line 121: the early return that issues no fetch.
SkipsFetch(last_date, end) ==
    last_date # NoDate /\ last_date >= parse_date(end)

\* FetchStart without the day added to the last recorded date.
FetchStartFromLast(start, last_date) ==
    IF last_date # NoDate
    THEN format_date(Max(parse_date(start), last_date))
    ELSE start

\* Lines 124-126: the start of the window handed to fetch_daily.
FetchStart(start, last_date) ==
    IF last_date # NoDate
    THEN format_date(Max(parse_date(start), last_date + 1))
    ELSE start

\* merged.dropna(subset=["日期"]) after the coercion of line 139: rows as
\* [date |-> day number, close], the unparseable ones dropped.
DropNa(rows) ==
    LET parsed == [i \in 1..Len(rows) |->
                      [date |-> ToDatetime(rows[i].date), close |-> rows[i].close]]
    IN SelectSeq(parsed, LAMBDA r : r.date # NoDate)

RECURSIVE PermsOf(_)
PermsOf(S) ==
    IF S = {} THEN {<<>>}
    ELSE UNION {{<<x>> \o p : p \in PermsOf(S \ {x})} : x \in S}

\* The orders of the rows of `rows` dated in `dates`: ascending by date,
\* the rows of one date in any order.
RECURSIVE OrdersFrom(_, _)
OrdersFrom(rows, dates) ==
    IF dates = {} THEN {<<>>}
    ELSE LET d == CHOOSE x \in dates : \A y \in dates : x <= y
             group == {i \in 1..Len(rows) : rows[i].date = d}
         IN {p \o q : p \in PermsOf(group), q \in OrdersFrom(rows, dates \ {d})}

\* DataFrame.sort_values("日期") with the default kind="quicksort", which
\* is not a stable sort: rows of equal date come out in an order the
\* numpy build decides.  Every ascending order is an outcome.
sort_values(rows) ==
    {[k \in 1..Len(rows) |-> rows[o[k]]] :
        o \in OrdersFrom(rows, {rows[i].date : i \in 1..Len(rows)})}

\* drop_duplicates(subset=["日期"], keep="last").
drop_duplicates(rows) ==
    LET keep == {i \in 1..Len(rows) :
                    \A j \in (i + 1)..Len(rows) : rows[j].date # rows[i].date}
        F[i \in 0..Len(rows)] ==
            IF i = 0 THEN <<>>
            ELSE IF i \in keep THEN Append(F[i - 1], rows[i]) ELSE F[i - 1]
    IN F[Len(rows)]

\* Lines 137-142: the frames the merge may write.
Merge(existing, data) ==
    LET sorted == sort_values(DropNa(existing \o data))
        text(rows) == [i \in 1..Len(rows) |->
                          [date |-> Strftime(rows[i].date), close |-> rows[i].close]]
    IN {drop_duplicates(text(s)) : s \in sorted}

\* Lines 134-145: the files update_symbol_data may leave for fetched
\* `data` (not empty).
Written(f, data) ==
    IF f.exists THEN {File(m) : m \in Merge(f.rows, data)}
    ELSE {File(data)}

NoCall == [op |-> "none"]

\* The windows a caller may request.
WindowsUpTo(n) == {format_date(o) : o \in 1..(n + 1)}

---------------------------------------------------------------------------
(* The external source. *)

\* fetch_daily of a source that may answer anything.
AnyFrames(symbol, start, end) == Frames

\* The bars a source may hold: of any day, with unreadable date cells too.
SourceBars == [date : DateCells, close : {"a"}]

\* A source is the table of its bars, in its own order and with any number
\* of bars to a day, and whether it cuts its answer to the window asked.
\* The program takes whatever the call returns (lines 25-33).
Sources == [bars : SeqsUpTo(SourceBars, MaxFetch), windowed : BOOLEAN]

NoSource == [bars |-> <<>>, windowed |-> TRUE]

\* fetch_daily of a source that answers a window the same way every time
\* it is asked: its bars of the window, or all its bars, in table order.
fetch_daily(symbol, start, end) ==
    {IF source.windowed
     THEN SelectSeq(source.bars,
                    LAMBDA b : /\ ToDatetime(b.date) # NoDate
                               /\ ToDatetime(b.date) >= parse_date(start)
                               /\ ToDatetime(b.date) <= parse_date(end))
     ELSE source.bars}

\* The 收盘 cells of the strategy's CSV: prices in cents, <<>> unreadable.
Prices == {1, 100, 200}
Cells == {<<p>> : p \in Prices} \cup {<<>>}

\* fetch_daily of a source that answers a window with one bar of it.
NewBar(symbol, start, end) ==
    {<<[date |-> Strftime(d), close |-> c]>> :
        d \in parse_date(start)..parse_date(end), c \in Cells}

\* What fetch_daily may return, by the source behind it.
Answers(api, symbol, start, end) ==
    IF api = "any" THEN AnyFrames(symbol, start, end)
    ELSE IF api = "bar" THEN NewBar(symbol, start, end)
    ELSE fetch_daily(symbol, start, end)

\* update_symbol_data(symbol, start, end) on file f, fetch_daily answering
\* one of Answers(api, ...): each way the call may go, as the file it
\* leaves, the tuple it returns, and the fetch it issued.
update_symbol_data(f, symbol, start, end, api) ==
    LET last_date == get_existing_last_date(f)
        out(file, fetched, fstart, data, ret) ==
            [file |-> file, ret |-> ret, fetched |-> fetched,
             fstart |-> fstart, fend |-> end, data |-> data]
    IN IF SkipsFetch(last_date, end)
       THEN {out(f, FALSE, start, <<>>, <<0, 0>>)}
       ELSE LET fstart == FetchStart(start, last_date) IN
            UNION {IF data = <<>>
                   THEN {out(f, TRUE, fstart, data, <<0, 0>>)}
                   ELSE {out(w, TRUE, fstart, data, <<Len(f.rows), Len(data)>>)
                         : w \in Written(f, data)}
                   : data \in Answers(api, symbol, fstart, end)}

---------------------------------------------------------------------------
(* Spec: one symbol synchronised against a source that may answer anything. *)

\* A sync of any window; the event keeps the frame the source answered.
Sync ==
    \E symbol \in StoreSymbols :
    \E start \in WindowsUpTo(MaxDay), end \in WindowsUpTo(MaxDay) :
        \E out \in update_symbol_data(store[symbol], symbol, start, end, "any") :
            /\ store' = [store EXCEPT ![symbol] = out.file]
            /\ call' = [op |-> "sync", symbol |-> symbol, data |-> out.data]
            /\ UNCHANGED <<source, batchVars, stratVars>>

NoSignals == [run |-> "never", capital |-> 0, anchor |-> 0, out |-> <<>>]

NoReport == [run |-> "never", hold_days |-> 0, results |-> <<>>,
             read |-> NoSignals, bars |-> 0, walked |-> <<>>]

Idle == [pc |-> "idle", runs |-> 0, symbols |-> <<>>, idx |-> 0,
         start |-> 0, end |-> 0, done |-> <<>>, failed |-> {}]

Init ==
    /\ store = [s \in StoreSymbols |-> NoFile]
    /\ source = NoSource
    /\ call = NoCall
    /\ snapshot = [exists |-> FALSE, symbols |-> <<>>]
    /\ changelog = <<>>
    /\ run = Idle
    /\ ideal = [s \in StoreSymbols |-> NoFile]
    /\ csv = [exists |-> FALSE, rows |-> <<>>]
    /\ signals = NoSignals
    /\ report = NoReport

Next == Sync

Spec == Init /\ [][Next]_vars

---------------------------------------------------------------------------
(* SpecSource: one symbol synchronised against a source that answers a    *)
(* window the same way until its data changes.                             *)

\* The source changes: it takes a bar at either end of its table, or it
\* changes whether it cuts its answers to the window.
Publish ==
    \E next \in Sources \ {source} :
        /\ \/ /\ next.windowed = source.windowed
              /\ \E b \in SourceBars : \/ next.bars = Append(source.bars, b)
                                        \/ next.bars = <<b>> \o source.bars
           \/ /\ next.windowed # source.windowed
              /\ next.bars = source.bars
        /\ run.pc = "idle"
        /\ source' = next
        /\ call' = [op |-> "publish"]
        /\ UNCHANGED <<store, batchVars, stratVars>>

\* A sync of any window; the event keeps the request, the fetch issued and
\* the result.
SyncSource ==
    \E symbol \in StoreSymbols :
    \E start \in WindowsUpTo(MaxDay), end \in WindowsUpTo(MaxDay) :
        \E out \in update_symbol_data(store[symbol], symbol, start, end, "published") :
            /\ store' = [store EXCEPT ![symbol] = out.file]
            /\ call' = [op |-> "sync", symbol |-> symbol,
                        start |-> start, end |-> end,
                        fetched |-> out.fetched, fstart |-> out.fstart,
                        fend |-> out.fend, ret |-> out.ret]
            /\ UNCHANGED <<source, batchVars, stratVars>>

NextSource == Publish \/ SyncSource

SpecSource == Init /\ [][NextSource]_vars

---------------------------------------------------------------------------
(* update_all_symbols: the universe snapshot, the changelog, the loop. *)

\* A symbol is the tuple of its characters.  The symbols fetch_symbols may
\* list: two all-digit codes, one with a leading zero, and one that is not
\* a number.
Universe == {<<"0", "1">>, <<"6", "0">>, <<"A">>}

Digits == {"0", "1", "2", "3", "4", "5", "6", "7", "8", "9"}

\* The code point order of the characters in use.
CharCode(c) ==
    CASE c = "0" -> 48 [] c = "1" -> 49 [] c = "6" -> 54 [] c = "A" -> 65

\* Python's str order.
RECURSIVE StrLess(_, _)
StrLess(a, b) ==
    IF a = <<>> THEN b # <<>>
    ELSE IF b = <<>> THEN FALSE
    ELSE IF a[1] # b[1] THEN CharCode(a[1]) < CharCode(b[1])
    ELSE StrLess(Tail(a), Tail(b))

Range(q) == {q[i] : i \in 1..Len(q)}

\* sorted(S) of a set of strings.
RECURSIVE Sorted(_)
Sorted(S) ==
    IF S = {} THEN <<>>
    ELSE LET m == CHOOSE x \in S : \A y \in S \ {x} : StrLess(x, y)
         IN <<m>> \o Sorted(S \ {m})

\* str(int(float(text))) of an all-digit text: the leading zeros go.
RECURSIVE StrOfNumber(_)
StrOfNumber(text) ==
    IF Len(text) > 1 /\ text[1] = "0" THEN StrOfNumber(Tail(text)) ELSE text

IsNumber(text) == text # <<>> /\ \A i \in 1..Len(text) : text[i] \in Digits

\* pd.read_json(path)["symbols"].astype(str): read_json infers dtypes, so
\* a column in which every text is a number is read as numbers.
ReadJsonSymbols(column) ==
    IF \A i \in 1..Len(column) : IsNumber(column[i])
    THEN [i \in 1..Len(column) |-> StrOfNumber(column[i])]
    ELSE column

\* load_symbol_snapshot.
load_symbol_snapshot(snap) ==
    IF ~snap.exists THEN {} ELSE Range(ReadJsonSymbols(snap.symbols))

\* save_symbol_snapshot.
save_symbol_snapshot(symbols) ==
    [exists |-> TRUE, symbols |-> Sorted(Range(symbols))]

\* log_symbol_changes: one section appended.
log_symbol_changes(log, added, removed) ==
    Append(log, [added |-> added, removed |-> removed])

\* The symbol lists fetch_symbols may return (a symbol may repeat).
SymbolLists == UNION {[1..k -> Universe] : k \in 1..MaxSymbols}

\* The --end a run may be given: the first day or the last.
BatchEnds == {format_date(1), format_date(LastDay)}

\* Lines 151-163: the head of update_all_symbols.
RunStart ==
    /\ run.pc = "idle"
    /\ run.runs < MaxRuns
    /\ \E symbols \in SymbolLists :
       \E start \in {format_date(1)}, end \in BatchEnds :
          LET previous_symbols == load_symbol_snapshot(snapshot)
              current_symbols == Range(symbols)
              added == current_symbols \ previous_symbols
              removed == previous_symbols \ current_symbols
          IN /\ changelog' = log_symbol_changes(changelog, added, removed)
             /\ snapshot' = save_symbol_snapshot(symbols)
             /\ run' = [pc |-> "loop", runs |-> run.runs + 1,
                        symbols |-> symbols, idx |-> 1,
                        start |-> start, end |-> end,
                        done |-> <<>>, failed |-> {}]
             /\ ideal' = store
    /\ UNCHANGED <<storeVars, stratVars>>

\* The loop moves to the next symbol, or ends after the last.
Advance(r) ==
    [r EXCEPT !.idx = r.idx + 1,
              !.done = Append(r.done, r.symbols[r.idx]),
              !.pc = IF r.idx = Len(r.symbols) THEN "finished" ELSE "loop"]

\* OnFailure with the exception leaving the loop.
OnFailureAbort(r) ==
    [r EXCEPT !.pc = "aborted", !.failed = r.failed \cup {r.symbols[r.idx]}]

\* Lines 170-171: the exception of one symbol is caught and printed.
OnFailure(r) ==
    [Advance(r) EXCEPT !.failed = r.failed \cup {r.symbols[r.idx]}]

\* What the run would store for symbol s had no symbol failed.
IdealAfter(s) ==
    {[ideal EXCEPT ![s] = o.file] :
        o \in update_symbol_data(ideal[s], s, run.start, run.end, "published")}

\* Lines 165-169: one symbol of the loop, synchronised.
StepOk ==
    /\ run.pc = "loop"
    /\ LET symbol == run.symbols[run.idx] IN
       \E out \in update_symbol_data(store[symbol], symbol, run.start, run.end,
                                     "published") :
          /\ store' = [store EXCEPT ![symbol] = out.file]
          /\ ideal' \in IF ideal[symbol] = store[symbol]
                        THEN {[ideal EXCEPT ![symbol] = out.file]}
                        ELSE IdealAfter(symbol)
          /\ run' = Advance(run)
    /\ UNCHANGED <<source, call, snapshot, changelog, stratVars>>

\* Lines 165-171: one symbol of the loop, its fetch or its merge raising
\* before anything is written.
StepFail ==
    /\ run.pc = "loop"
    /\ LET symbol == run.symbols[run.idx] IN
          /\ ideal' \in IdealAfter(symbol)
          /\ run' = OnFailure(run)
    /\ UNCHANGED <<store, source, call, snapshot, changelog, stratVars>>

\* update_all_symbols returns.
RunEnd ==
    /\ run.pc = "finished"
    /\ run' = [Idle EXCEPT !.runs = run.runs]
    /\ UNCHANGED <<storeVars, snapshot, changelog, ideal, stratVars>>

\* The source of the batch runs: a bar for each of its days, latest first.
BatchSource ==
    [bars |-> [i \in 1..MaxFetch |->
                  [date |-> Strftime(MaxFetch + 1 - i), close |-> "a"]],
     windowed |-> TRUE]

InitBatch ==
    /\ store = [s \in Universe |-> NoFile]
    /\ source = BatchSource
    /\ call = NoCall
    /\ snapshot = [exists |-> FALSE, symbols |-> <<>>]
    /\ changelog = <<>>
    /\ run = Idle
    /\ ideal = [s \in Universe |-> NoFile]
    /\ csv = [exists |-> FALSE, rows |-> <<>>]
    /\ signals = NoSignals
    /\ report = NoReport

NextBatch == RunStart \/ StepOk \/ StepFail \/ RunEnd

SpecBatch == InitBatch /\ [][NextBatch]_vars

---------------------------------------------------------------------------
(* strategy_signal.py.  A price is a whole number of cents.  A 收盘 cell   *)
(* of the CSV is <<cents>>, and <<>> when to_numeric cannot read it.       *)

Min(a, b) == IF a <= b THEN a ELSE b

None == [kind |-> "none"]

\* An exception leaves the function (ZeroDivisionError).
Raised == [kind |-> "raise"]

\* read_csv(file)["收盘"]: the close cells of the file's rows.
CloseColumn(f) == [i \in 1..Len(f.rows) |-> f.rows[i].close]

\* to_numeric(errors="coerce") and dropna(subset=["close"]): the rows whose
\* cell is a number, each under the index label it had in the file.
ToNumeric(cells) ==
    LET rows == [i \in 1..Len(cells) |-> [label |-> i, cell |-> cells[i]]]
        kept == SelectSeq(rows, LAMBDA r : r.cell # <<>>)
    IN [i \in 1..Len(kept) |-> [label |-> kept[i].label, close |-> kept[i].cell[1]]]

RECURSIVE SumCloses(_, _, _)
SumCloses(df, lo, hi) ==
    IF lo > hi THEN 0 ELSE df[hi].close + SumCloses(df, lo, hi - 1)

\* rolling(w).mean() at row i is RollingSum(df, w, i) / w, and NaN for i < w.
RollingSum(df, w, i) == SumCloses(df, i - w + 1, i)

\* The crossing with the short mean strictly under the long one before it.
CrossoverStrictBefore(df) ==
    LET n == Len(df) IN
    IF n - 1 < LongWindow THEN FALSE
    ELSE /\ RollingSum(df, ShortWindow, n - 1) * LongWindow
              < RollingSum(df, LongWindow, n - 1) * ShortWindow
         /\ RollingSum(df, ShortWindow, n) * LongWindow
              > RollingSum(df, LongWindow, n) * ShortWindow

\* prev["ma5"] <= prev["ma20"] and latest["ma5"] > latest["ma20"], the means
\* compared as fractions; a comparison with NaN is false.
crossover(df) ==
    LET n == Len(df) IN
    IF n - 1 < LongWindow THEN FALSE
    ELSE /\ RollingSum(df, ShortWindow, n - 1) * LongWindow
              <= RollingSum(df, LongWindow, n - 1) * ShortWindow
         /\ RollingSum(df, ShortWindow, n) * LongWindow
              > RollingSum(df, LongWindow, n) * ShortWindow

FloorDiv(a, b) == IF b > 0 THEN a \div b ELSE (-a) \div (-b)

\* The cent amounts of the model whose binary64 value lies above the
\* decimal: 0.01, 0.02, 0.04.  The others are whole yuan and exact.
AboveDecimal(c) == c \in {1, 2, 4}

\* int(capital_per_trade // buy_price) on binary64 values, capital a whole
\* number of yuan: a divisor that lies above its decimal pulls an exact
\* quotient below the integer (1.0 // 0.01 = 99.0).
BuyQty(capital, buy_price) ==
    LET q == FloorDiv(capital, buy_price) IN
    IF AboveDecimal(buy_price) /\ capital > 0 /\ capital % buy_price = 0
    THEN q - 1 ELSE q

\* round(x, 2) of x = num/den yuan-cents: the nearest cent, a tie to even.
RoundCents(num, den) ==
    LET q == FloorDiv(num, den)
        r == num - q * den
    IN IF 2 * r < den THEN q
       ELSE IF 2 * r > den THEN q + 1
       ELSE IF q % 2 = 0 THEN q ELSE q + 1

compute_signal(cells, capital_per_trade) ==
    IF Len(cells) < MinHistory THEN None
    ELSE LET df == ToNumeric(cells) IN
         IF Len(df) < MinHistory THEN None
         ELSE IF ~crossover(df) THEN None
         ELSE LET buy_price == df[Len(df)].close IN
              IF buy_price = 0 THEN Raised
              ELSE LET buy_qty == BuyQty(capital_per_trade, buy_price) IN
                   IF buy_qty <= 0 THEN None
                   ELSE [kind |-> "signal",
                         buy_price |-> buy_price,
                         buy_qty |-> buy_qty,
                         take_profit |-> RoundCents(buy_price * 11, 10),
                         stop_loss |-> RoundCents(buy_price * 19, 20)]

---------------------------------------------------------------------------
(* backtest.py *)

\* df.loc[buy_index + 1 :].head(hold_days), buy_index the label of row
\* -(hold_days + 1) of the numeric rows, or of row 0 when there are too few.
future_slice(df, hold_days) ==
    LET n == Len(df)
        buy_index == IF n > hold_days THEN df[n - hold_days].label ELSE df[1].label
        after == SelectSeq(df, LAMBDA r : r.label >= buy_index + 1)
    IN SubSeq(after, 1, Min(hold_days, Len(after)))

\* One bar of the walk with the stop-loss test put first.
TouchStopFirst(price, take_profit, stop_loss) ==
    IF price <= stop_loss THEN <<stop_loss>>
    ELSE IF price >= take_profit THEN <<take_profit>>
    ELSE <<>>

\* One bar of the walk: <<exit price>> when the bar ends it, <<>> otherwise.
Touch(price, take_profit, stop_loss) ==
    IF price >= take_profit THEN <<take_profit>>
    ELSE IF price <= stop_loss THEN <<stop_loss>>
    ELSE <<>>

RECURSIVE Walk(_, _, _, _)
Walk(slice, i, take_profit, stop_loss) ==
    IF i > Len(slice) THEN slice[Len(slice)].close
    ELSE LET t == Touch(slice[i].close, take_profit, stop_loss) IN
         IF t # <<>> THEN t[1] ELSE Walk(slice, i + 1, take_profit, stop_loss)

\* pnl is the exact product; return_pct is the fraction <<num, den>>.
evaluate_trade(signal, hold_days, f) ==
    IF ~f.exists \/ f.rows = <<>> THEN None
    ELSE LET df == ToNumeric(CloseColumn(f)) IN
         IF df = <<>> THEN None
         ELSE LET slice == future_slice(df, hold_days) IN
              IF slice = <<>> THEN None
              ELSE LET sell_price == Walk(slice, 1, signal.take_profit, signal.stop_loss) IN
                   IF signal.buy_price = 0 THEN Raised
                   ELSE [kind |-> "trade",
                         buy_price |-> signal.buy_price,
                         buy_qty |-> signal.buy_qty,
                         take_profit |-> signal.take_profit,
                         stop_loss |-> signal.stop_loss,
                         sell_price |-> sell_price,
                         pnl |-> (sell_price - signal.buy_price) * signal.buy_qty,
                         return_pct |-> <<sell_price - signal.buy_price, signal.buy_price>>]

\* The labels of the rows evaluate_trade walks.
WalkedLabels(hold_days, f) ==
    LET df == ToNumeric(CloseColumn(f)) IN
    IF df = <<>> THEN <<>>
    ELSE LET slice == future_slice(df, hold_days)
         IN [i \in 1..Len(slice) |-> slice[i].label]

\* backtest.py main: every saved signal is evaluated; the results that are
\* not None enter the report.  An exception ends the run with no report.
\* The report also records what the run read: the signals, the number of
\* bars in the CSV, and the labels of the rows each evaluation walked.
Backtest ==
    \E hold_days \in 0..MaxHold :
        LET evals == [i \in 1..Len(signals.out) |->
                         evaluate_trade(signals.out[i], hold_days, csv)]
        IN /\ report' =
                IF \E i \in 1..Len(evals) : evals[i] = Raised
                THEN [report EXCEPT !.run = "crashed", !.hold_days = hold_days]
                ELSE [run |-> "saved",
                      hold_days |-> hold_days,
                      results |-> SelectSeq(evals, LAMBDA e : e # None),
                      read |-> signals,
                      bars |-> Len(csv.rows),
                      walked |-> [i \in 1..Len(signals.out) |->
                                     WalkedLabels(hold_days, csv)]]
           /\ UNCHANGED <<storeVars, batchVars, csv, signals>>

---------------------------------------------------------------------------
(* SpecTrade: evaluate_trade on its own, over every small file and signal. *)

TradeCells == {<<94>>, <<96>>, <<102>>, <<105>>, <<>>}

TradeSignals ==
    [kind : {"signal"}, buy_price : {0, 100}, buy_qty : {1},
     take_profit : {95, 104}, stop_loss : {95, 104}]

InitTrade ==
    /\ store = [s \in StoreSymbols |-> NoFile]
    /\ source = NoSource
    /\ call = NoCall
    /\ snapshot = [exists |-> FALSE, symbols |-> <<>>]
    /\ changelog = <<>>
    /\ run = Idle
    /\ ideal = [s \in StoreSymbols |-> NoFile]
    /\ \/ csv = NoFile
       \/ \E cells \in SeqsUpTo(TradeCells, MaxBars) :
              csv = File([i \in 1..Len(cells) |->
                             [date |-> Strftime(i), close |-> cells[i]]])
    /\ \E s \in TradeSignals :
           signals = [run |-> "saved", capital |-> 0, anchor |-> 0, out |-> <<s>>]
    /\ report = NoReport

NextTrade == Backtest

SpecTrade == InitTrade /\ [][NextTrade]_vars

---------------------------------------------------------------------------
(* SpecStrategy: the CSV is synchronised, signals are generated, the      *)
(* backtest runs.                                                          *)

BasePrices == {0, 100}
Capitals == {100}
HistoryLens == {LongWindow, MinHistory - 1}

\* update_symbol_data on the strategy's CSV, asked for the days up to
\* MaxTail days past the history the CSV started with.
SyncStrategy ==
    /\ \E symbol \in StoreSymbols, n \in HistoryLens :
          /\ n <= get_existing_last_date(csv)
          /\ \E out \in update_symbol_data(csv, symbol, format_date(1),
                                            format_date(n + MaxTail), "bar") :
                 csv' = out.file
    /\ UNCHANGED <<storeVars, batchVars, signals, report>>

\* strategy_signal.py main: run_signals over the one CSV, then save_signals.
\* An exception ends the run before signals.json is written.
RunSignals ==
    \E capital \in Capitals :
        LET signal == IF csv.exists THEN compute_signal(CloseColumn(csv), capital)
                      ELSE None
        IN
        /\ signals' =
             IF signal = Raised
             THEN [signals EXCEPT !.run = "crashed", !.capital = capital,
                                  !.anchor = Len(csv.rows)]
             ELSE [run |-> "saved", capital |-> capital, anchor |-> Len(csv.rows),
                   out |-> IF signal = None THEN <<>> ELSE <<signal>>]
        /\ UNCHANGED <<storeVars, batchVars, csv, report>>

InitStrategy ==
    /\ store = [s \in StoreSymbols |-> NoFile]
    /\ source = NoSource
    /\ call = NoCall
    /\ snapshot = [exists |-> FALSE, symbols |-> <<>>]
    /\ changelog = <<>>
    /\ run = Idle
    /\ ideal = [s \in StoreSymbols |-> NoFile]
    /\ \E n \in HistoryLens, p \in BasePrices :
           csv = File([i \in 1..n |-> [date |-> Strftime(i), close |-> <<p>>]])
    /\ signals = NoSignals
    /\ report = NoReport

NextStrategy == SyncStrategy \/ RunSignals \/ Backtest

SpecStrategy == InitStrategy /\ [][NextStrategy]_vars

---------------------------------------------------------------------------
(* Claims about the store. *)

\* The parsed dates of a file's rows, the unparseable cells left out.
StoredDates(f) ==
    LET d == [i \in 1..Len(f.rows) |-> ToDatetime(f.rows[i].date)]
    IN SelectSeq(d, LAMBDA x : x # NoDate)

StrictlyIncreasing(q) == \A i \in 1..(Len(q) - 1) : q[i] < q[i + 1]

\* C1 (as claimed): after any sync, first sync included and whatever the
\* fetch returned, each symbol's stored dates are strictly increasing, so
\* no date is stored twice.
C1_OrderingInvariant ==
    \A s \in DOMAIN store :
        store[s].exists => StrictlyIncreasing(StoredDates(store[s]))

\* The rows of `rows` whose date cell reads as day d.
RowsOn(rows, d) == SelectSeq(rows, LAMBDA r : ToDatetime(r.date) = d)

DatesIn(rows) == {ToDatetime(rows[i].date) : i \in 1..Len(rows)} \ {NoDate}

\* C2 (as claimed): a sync that merges fetched bars into an existing file
\* leaves, for every date D both hold, exactly one row, and it carries the
\* values of the bar fetched last for D.
C2_DedupOnOverlap ==
    [][\A s \in DOMAIN store :
          (/\ call'.op = "sync"
           /\ call'.symbol = s
           /\ call'.data # <<>>
           /\ store[s].exists)
          => \A d \in DatesIn(store[s].rows) \cap DatesIn(call'.data) :
                LET fresh == RowsOn(call'.data, d)
                    kept == RowsOn(store'[s].rows, d)
                IN /\ Len(kept) = 1
                   /\ kept[1].close = fresh[Len(fresh)].close]_vars

\* C3 (as claimed): a sync repeated with the same window against a source
\* that answers every window as it did before returns (0, 0) and leaves
\* the stored dataset as the first sync left it.
C3_MergeIdempotence ==
    [][(/\ call.op = "sync"
        /\ call'.op = "sync"
        /\ call'.symbol = call.symbol
        /\ call'.start = call.start
        /\ call'.end = call.end)
       => /\ call'.ret = <<0, 0>>
          /\ store' = store]_vars

\* C9: with a last recorded date L, a sync issues no fetch and returns
\* (0, 0) when L >= end, and otherwise one fetch from max(start, L + 1) to
\* end, after L; with no last recorded date it fetches the window as
\* requested.
C9_FetchWindow ==
    [][call'.op = "sync" =>
          LET L == get_existing_last_date(store[call'.symbol])
              c == call'
          IN /\ (L # NoDate /\ L >= parse_date(c.end))
                    => ~c.fetched /\ c.ret = <<0, 0>> /\ store' = store
             /\ (L # NoDate /\ L < parse_date(c.end))
                    => /\ c.fetched
                       /\ parse_date(c.fstart) = Max(parse_date(c.start), L + 1)
                       /\ parse_date(c.fstart) > L
                       /\ c.fend = c.end
             /\ L = NoDate
                    => c.fetched /\ c.fstart = c.start /\ c.fend = c.end]_vars

\* C9's case: a fetch whose start was moved past the last recorded date.
C9_Witness ==
    /\ call.op = "sync"
    /\ call.fetched
    /\ call.fstart # call.start
    /\ call.ret # <<0, 0>>

---------------------------------------------------------------------------
(* Claims about evaluate_trade and compute_signal. *)

\* The close cells of the CSV as it is now.
closes == CloseColumn(csv)

\* The closes of the rows the reported run walked for its signal.
WalkedCloses == [k \in 1..Len(report.walked[1]) |-> closes[report.walked[1][k]][1]]

\* The exit the first-touch rule names for the forward closes w.
FirstTouchExit(w, take_profit, stop_loss) ==
    LET hits == {k \in 1..Len(w) : w[k] >= take_profit \/ w[k] <= stop_loss} IN
    IF hits = {} THEN w[Len(w)]
    ELSE LET first == CHOOSE k \in hits : \A j \in hits : k <= j IN
         IF w[first] >= take_profit THEN take_profit ELSE stop_loss

\* C5: for a non-empty sequence of forward closes, sell_price is
\* take_profit if the first bar that touches a bound has close >=
\* take_profit, stop_loss if that bar only has close <= stop_loss, and the
\* close of the last forward bar if no bar touches a bound, also when fewer
\* than hold_days forward bars exist.
C5_FirstTouchExit ==
    (report.run = "saved" /\ report.walked # <<>> /\ report.walked[1] # <<>>) =>
        /\ Len(report.results) = 1
        /\ report.results[1].sell_price =
               FirstTouchExit(WalkedCloses, report.read.out[1].take_profit,
                              report.read.out[1].stop_loss)

\* C5 witness: the first forward bar touches no bound, the second one is
\* at or under the stop-loss, and the trade exits at the stop-loss.
C5_Witness ==
    /\ report.run = "saved" /\ report.walked # <<>>
    /\ Len(report.walked[1]) >= 2
    /\ LET s == report.read.out[1] IN
       /\ s.stop_loss < s.take_profit
       /\ WalkedCloses[1] > s.stop_loss /\ WalkedCloses[1] < s.take_profit
       /\ WalkedCloses[2] <= s.stop_loss
       /\ report.results = <<[kind |-> "trade", buy_price |-> s.buy_price,
                              buy_qty |-> s.buy_qty, take_profit |-> s.take_profit,
                              stop_loss |-> s.stop_loss, sell_price |-> s.stop_loss,
                              pnl |-> (s.stop_loss - s.buy_price) * s.buy_qty,
                              return_pct |-> <<s.stop_loss - s.buy_price, s.buy_price>>]>>

\* The CSV holds numbers only and the last run of strategy_signal.py read
\* it as it is now.
SignalsCurrent ==
    /\ signals.run = "saved"
    /\ signals.anchor = Len(closes)
    /\ \A i \in 1..Len(closes) : closes[i] # <<>>

Series == [i \in 1..Len(closes) |-> closes[i][1]]

RECURSIVE SumLast(_, _)
SumLast(q, w) ==
    IF w = 0 THEN 0 ELSE q[Len(q)] + SumLast(SubSeq(q, 1, Len(q) - 1), w - 1)

\* The 5-bar trailing average is <= the 20-bar one on the second-to-last
\* bar of q and > it on the last bar.
CrossesOnLastBar(q) ==
    /\ Len(q) > LongWindow
    /\ 4 * SumLast(SubSeq(q, 1, Len(q) - 1), ShortWindow)
          <= SumLast(SubSeq(q, 1, Len(q) - 1), LongWindow)
    /\ 4 * SumLast(q, ShortWindow) > SumLast(q, LongWindow)

SignalAtLastClose ==
    /\ Len(signals.out) = 1
    /\ signals.out[1].buy_price = Series[Len(Series)]
    /\ compute_signal(SubSeq(closes, 1, Len(closes) - 1), signals.capital) = None

\* C6 (as claimed): for a series of 21 closes whose 5-bar average is <= the
\* 20-bar average on the second-to-last bar and > it on the last bar, with
\* capital_per_trade >= the final close, compute_signal returns a signal
\* with buy_price = the final close, and none for the series without its
\* last bar.
C6_CrossoverExample ==
    (/\ SignalsCurrent
     /\ Len(closes) = LongWindow + 1
     /\ CrossesOnLastBar(Series)
     /\ signals.capital >= Series[Len(Series)]) => SignalAtLastClose

\* C6 (amended): the same for a series of at least 30 closes, the minimum
\* history compute_signal asks for, whose final close is positive.
C6_CrossoverAtMinHistory ==
    (/\ SignalsCurrent
     /\ Len(closes) >= MinHistory
     /\ CrossesOnLastBar(Series)
     /\ Series[Len(Series)] > 0
     /\ signals.capital >= Series[Len(Series)]) => SignalAtLastClose

\* C6 witness: a series of 30 closes or more crosses on its last bar and
\* the signal at its final close is saved.
C6_Witness ==
    /\ SignalsCurrent
    /\ Len(closes) >= MinHistory
    /\ CrossesOnLastBar(Series)
    /\ Series[Len(Series)] > 0
    /\ signals.capital >= Series[Len(Series)]
    /\ Len(signals.out) = 1
    /\ signals.out[1].buy_price = Series[Len(Series)]

\* C7 (as claimed): every signal compute_signal returns, for any history
\* and any capital, has stop_loss < buy_price < take_profit and buy_qty > 0,
\* very small closes included.
C7_SignalInvariant ==
    \A i \in 1..Len(signals.out) :
        /\ signals.out[i].stop_loss < signals.out[i].buy_price
        /\ signals.out[i].buy_price < signals.out[i].take_profit
        /\ signals.out[i].buy_qty > 0

\* The labels, in file order, of the numeric rows a run of the backtest
\* found after the anchor bar of the signal it read, at most hold_days.
ForwardOfAnchor ==
    LET after == SelectSeq([i \in 1..report.bars |-> i],
                           LAMBDA i : i > report.read.anchor /\ closes[i] # <<>>)
    IN SubSeq(after, 1, Min(report.hold_days, Len(after)))

\* C8 (as claimed): the bars evaluate_trade walks for a signal are the
\* stored bars strictly after the signal's anchor bar, in order, at most
\* hold_days of them; when no stored bar follows the anchor bar no
\* TradeResult enters the summary.
C8_ForwardWindow ==
    (report.run = "saved" /\ report.read.run = "saved" /\ report.walked # <<>>) =>
        /\ report.walked[1] = ForwardOfAnchor
        /\ (ForwardOfAnchor = <<>> => report.results = <<>>)

---------------------------------------------------------------------------
(* Claims about update_all_symbols. *)

\* The symbols the snapshot file holds, as the run that wrote it wrote them.
Persisted(snap) == IF ~snap.exists THEN {} ELSE Range(snap.symbols)

\* C4 (as claimed): every run appends to the changelog the entry
\* added = current - previous, removed = previous - current, previous being
\* the snapshot the run before persisted (empty if none), leaves the
\* earlier entries as they were, and persists the sorted current set.
C4_UniverseDiff ==
    [][(run.pc = "idle" /\ run'.pc = "loop") =>
          LET previous == Persisted(snapshot)
              current == Range(run'.symbols)
          IN /\ changelog' = Append(changelog,
                                    [added |-> current \ previous,
                                     removed |-> previous \ current])
             /\ snapshot' = [exists |-> TRUE, symbols |-> Sorted(current)]]_vars

\* C10: a symbol that fails does not end the run: the loop has gone through
\* the symbols before its index once each, in order, the failed ones
\* included, and every symbol that did not fail is stored as the run
\* without the failure would store it.
C10_FailureIsolation ==
    /\ run.pc \in {"idle", "loop", "finished"}
    /\ run.pc \in {"loop", "finished"} =>
          /\ run.done = SubSeq(run.symbols, 1, run.idx - 1)
          /\ run.failed \subseteq Range(run.done)
          /\ run.pc = "finished" <=> run.idx = Len(run.symbols) + 1
          /\ \A s \in DOMAIN store \ run.failed : store[s] = ideal[s]

\* C10's case: the first symbol of a finished run failed and the second,
\* another symbol, was then synchronised and has its bars stored.
C10_Witness ==
    /\ run.pc = "finished"
    /\ Len(run.symbols) >= 2
    /\ run.symbols[1] \in run.failed
    /\ run.symbols[2] \notin run.failed
    /\ Len(store[run.symbols[2]].rows) >= 2
    /\ ideal[run.symbols[1]] # store[run.symbols[1]]

=============================================================================
